---- MODULE Spec2Model ----
(***************************************************************************)
(* st-core: the block execution engine (src/core/block.go) and the library *)
(* of built-in kernels (src/core/library.go).                              *)
(*                                                                         *)
(* Two state machines share this module:                                   *)
(*   SpecK  one kernel of the library applied to one combination of input  *)
(*          messages (the kernel's own wait included);                     *)
(*   Spec   one block running Serve, with its callers (mutators, Input),   *)
(*          the senders on its input channels and the receivers on its     *)
(*          connections.                                                   *)
(***************************************************************************)
EXTENDS Integers, Sequences, FiniteSets, TLC

(***************************************************************************)
(* Messages.  A Message is Go's interface{}: float64, bool, string, nil,   *)
(* []interface{}, map[string]interface{} or an error value.  Every message *)
(* is a record of one shape so that messages nest and compare:             *)
(*   t  the dynamic type, n  the number / truth value / error identity,    *)
(*   s  the string, e  the elements (of a sequence) or entries (of a map). *)
(***************************************************************************)
Msg(t, n, s, e) == [t |-> t, n |-> n, s |-> s, e |-> e]
Num(n) == Msg("num", n, "", <<>>)
Bool(b) == Msg("bool", IF b THEN 1 ELSE 0, "", <<>>)
Str(s) == Msg("str", 0, s, <<>>)
Null == Msg("null", 0, "", <<>>)
Arr(e) == Msg("seq", 0, "", e)
Entry(k, v) == Msg("kv", 0, k, <<v>>)
Map1(k, v) == Msg("map", 0, "", <<Entry(k, v)>>)
\* an error value is a pointer (*stcoreError, *errors.errorString): n is its identity
Err(n, s) == Msg("err", n, s, <<>>)
\* a float64 that is no integer (a quotient), +-Inf or NaN
Frac(a, b) == Msg("num", a, "frac", <<Num(b)>>)
Inf(sign) == Msg("num", sign, "inf", <<>>)
NaN == Msg("num", 0, "nan", <<>>)

IsNum(m) == m.t = "num"
IsBool(m) == m.t = "bool"
IsStr(m) == m.t = "str"
IsArr(m) == m.t = "seq"
IsMap(m) == m.t = "map"
IsErr(m) == m.t = "err"

\* identities of the error values the kernels create
ErrNew == 100
ErrParse == 101

(***************************************************************************)
(* The kernel library (library.go).  A kernel reads the map in, writes the *)
(* map out and returns an Interrupt or nil.  R(st, out, internal) is one   *)
(* invocation's outcome: st = "nil" the kernel returned nil, "panic" the   *)
(* goroutine panicked (a failed type assertion, an index out of range, a   *)
(* comparison of uncomparable values), "wait" the kernel is in its select. *)
(* out holds the entries the kernel wrote.                                 *)
(***************************************************************************)
None == <<>>
R(st, out, internal) == [st |-> st, out |-> out, internal |-> internal]
Out0(m) == 0 :> m
Out01(m0, m1) == 0 :> m0 @@ 1 :> m1

\* the Spec literals: input and output pin names, indexed from 1 here (RouteID + 1)
Pins(name) ==
  CASE name = "first" -> [Inputs |-> <<"in">>, Outputs |-> <<"first">>]
    [] name = "delay" -> [Inputs |-> <<"passthrough", "duration">>, Outputs |-> <<"passthrough">>]
    [] name = "set" -> [Inputs |-> <<"key", "value">>, Outputs |-> <<"object">>]
    [] name = "log" -> [Inputs |-> <<"log">>, Outputs |-> <<>>]
    [] name = "sink" -> [Inputs |-> <<"in">>, Outputs |-> <<>>]
    [] name = "latch" -> [Inputs |-> <<"in", "ctrl">>, Outputs |-> <<"out", "out">>]
    [] name = "gate" -> [Inputs |-> <<"in", "ctrl">>, Outputs |-> <<"out">>]
    [] name = "identity" -> [Inputs |-> <<"in">>, Outputs |-> <<"out">>]
    [] name = "head" -> [Inputs |-> <<"in">>, Outputs |-> <<"head", "tail">>]
    [] name = "tail" -> [Inputs |-> <<"in">>, Outputs |-> <<"tail", "head">>]
    [] name = "append" -> [Inputs |-> <<"element", "array">>, Outputs |-> <<"array">>]
    [] name = "+" -> [Inputs |-> <<"addend", "addend">>, Outputs |-> <<"sum">>]
    [] name = "-" -> [Inputs |-> <<"minuend", "subtrahend">>, Outputs |-> <<"difference">>]
    [] name = "*" -> [Inputs |-> <<"multiplicand", "multiplicand">>, Outputs |-> <<"product">>]
    [] name = "/" -> [Inputs |-> <<"dividend", "divisor">>, Outputs |-> <<"quotient">>]
    [] name = "^" -> [Inputs |-> <<"base", "exponent">>, Outputs |-> <<"power">>]
    [] name = "mod" -> [Inputs |-> <<"dividend", "divisor">>, Outputs |-> <<"remainder">>]
    [] name = ">" -> [Inputs |-> <<"value", "value">>, Outputs |-> <<"IsGreaterThan">>]
    [] name = "<" -> [Inputs |-> <<"value", "value">>, Outputs |-> <<"IsLessThan">>]
    [] name = "==" -> [Inputs |-> <<"value", "value">>, Outputs |-> <<"IsEqualTo">>]
    [] name = "!=" -> [Inputs |-> <<"value", "value">>, Outputs |-> <<"IsNotEqualTo">>]

\* the kernels of GetLibrary whose Spec functions are in library.go
Library ==
  {"first", "delay", "set", "log", "sink", "latch", "gate", "identity", "head",
   "tail", "append", "+", "-", "*", "/", "^", "mod", ">", "<", "==", "!="}

NumInputs(name) == Len(Pins(name).Inputs)
NumOutputs(name) == Len(Pins(name).Outputs)
InputIds(name) == 0 .. NumInputs(name) - 1
OutputIds(name) == 0 .. NumOutputs(name) - 1
OutName(name, id) == Pins(name).Outputs[id + 1]

\* time.ParseDuration: the literals it accepts among the strings of the model
DurationLiterals == {"10ms"}
ParseDurationOk(s) == s \in DurationLiterals

\* a first that keeps no record of its first invocation
FirstForgets(in, internal) == R("nil", Out0(Bool(TRUE)), internal)

First(in, internal) ==
  IF 0 \notin internal
    THEN R("nil", Out0(Bool(TRUE)), internal \cup {0})
    ELSE R("nil", Out0(Bool(FALSE)), internal)

\* in[1].(string) panics on a non-string; the select on the timer and on i is "wait"
Delay(in, internal) ==
  IF ~IsStr(in[1]) THEN R("panic", None, internal)
  ELSE IF ~ParseDurationOk(in[1].s)
    THEN R("nil", Out0(Err(ErrParse, in[1].s)), internal)
    ELSE R("wait", None, internal)

\* case <-timer.C of Delay
DelayTimer(in) == Out0(in[0])

\* in[0].(string) panics on a non-string key
Set(in, internal) ==
  IF ~IsStr(in[0]) THEN R("panic", None, internal)
  ELSE R("nil", Out0(Map1(in[0].s, in[1])), internal)

Log(in, internal) == R("nil", None, internal)

Sink(in, internal) == R("nil", None, internal)

Latch(in, internal) ==
  IF ~IsBool(in[1]) THEN R("nil", Out0(Err(ErrNew, "Latch ctrl requires bool")), internal)
  ELSE IF in[1].n = 1
    THEN R("nil", Out01(in[0], Null), internal)
    ELSE R("nil", Out01(Null, in[0]), internal)

Gate(in, internal) == R("nil", Out0(in[0]), internal)

Identity(in, internal) == R("nil", Out0(in[0]), internal)

\* Go's index and slice expressions on a slice of length Len(arr), 0-based:
\* arr[i] needs 0 <= i < len, arr[lo:hi] needs 0 <= lo <= hi <= len
IndexOk(arr, i) == 0 <= i /\ i < Len(arr)
SliceOk(arr, lo, hi) == 0 <= lo /\ lo <= hi /\ hi <= Len(arr)
Index(arr, i) == arr[i + 1]
Slice(arr, lo, hi) == SubSeq(arr, lo + 1, hi)

\* out[0] = arr[0]; out[1] = arr[1:len(arr)]
KHead(in, internal) ==
  IF ~IsArr(in[0]) THEN R("nil", Out0(Err(ErrNew, "head requires an array")), internal)
  ELSE LET arr == in[0].e IN
    IF ~IndexOk(arr, 0) \/ ~SliceOk(arr, 1, Len(arr)) THEN R("panic", None, internal)
    ELSE R("nil", Out01(Index(arr, 0), Arr(Slice(arr, 1, Len(arr)))), internal)

\* out[0] = arr[len(arr)]; out[1] = arr[0 : len(arr)-1]
KTail(in, internal) ==
  IF ~IsArr(in[0]) THEN R("nil", Out0(Err(ErrNew, "tail requires an array")), internal)
  ELSE LET arr == in[0].e IN
    IF ~IndexOk(arr, Len(arr)) \/ ~SliceOk(arr, 0, Len(arr) - 1) THEN R("panic", None, internal)
    ELSE R("nil", Out01(Index(arr, Len(arr)), Arr(Slice(arr, 0, Len(arr) - 1))), internal)

KAppend(in, internal) ==
  IF ~IsArr(in[1]) THEN R("nil", Out0(Err(ErrNew, "Append requires an array")), internal)
  ELSE R("nil", Out0(Arr(Append(in[1].e, in[0]))), internal)

\* the two float64 assertions shared by the dyads; r is the result on two floats
Dyad(in, internal, what, r) ==
  IF ~IsNum(in[0]) THEN R("nil", Out0(Err(ErrNew, what)), internal)
  ELSE IF ~IsNum(in[1]) THEN R("nil", Out0(Err(ErrNew, what)), internal)
  ELSE R("nil", Out0(r), internal)

\* float64 arithmetic on the finite integers of the model; a result that is no
\* integer is Frac, Inf or NaN, and arithmetic on those yields NaN here
Plain(a, b) == a.s = "" /\ b.s = ""
Sum(a, b) == IF Plain(a, b) THEN Num(a.n + b.n) ELSE NaN
Difference(a, b) == IF Plain(a, b) THEN Num(a.n - b.n) ELSE NaN
Product(a, b) == IF Plain(a, b) THEN Num(a.n * b.n) ELSE NaN
Quotient(a, b) ==
  IF ~Plain(a, b) THEN NaN
  ELSE IF b.n = 0 THEN (IF a.n = 0 THEN NaN ELSE Inf(IF a.n > 0 THEN 1 ELSE -1))
  ELSE IF a.n % b.n = 0 THEN Num(a.n \div b.n)
  ELSE Frac(a.n, b.n)
RECURSIVE IntPow(_, _)
IntPow(a, k) == IF k = 0 THEN 1 ELSE a * IntPow(a, k - 1)
Power(a, b) ==
  IF ~Plain(a, b) THEN NaN
  ELSE IF b.n >= 0 THEN Num(IntPow(a.n, b.n))
  ELSE IF a.n = 0 THEN Inf(1)
  ELSE IF a.n = 1 THEN Num(1)
  ELSE Frac(1, IntPow(a.n, 0 - b.n))
\* math.Mod: the result has the sign of the dividend
Remainder(a, b) ==
  IF ~Plain(a, b) \/ b.n = 0 THEN NaN
  ELSE LET d == IF b.n < 0 THEN 0 - b.n ELSE b.n IN
       IF a.n >= 0 THEN Num(a.n % d) ELSE Num(0 - ((0 - a.n) % d))
Greater(a, b) == Bool(Plain(a, b) /\ a.n > b.n)
Less(a, b) == Bool(Plain(a, b) /\ a.n < b.n)

Addition(in, internal) == Dyad(in, internal, "Addition requires floats", Sum(in[0], in[1]))
Subtraction(in, internal) == Dyad(in, internal, "Subtraction requires floats", Difference(in[0], in[1]))
Multiplication(in, internal) == Dyad(in, internal, "Multiplication requires floats", Product(in[0], in[1]))
Division(in, internal) == Dyad(in, internal, "Division requires floats", Quotient(in[0], in[1]))
Exponentiation(in, internal) == Dyad(in, internal, "Exponentiation requires floats", Power(in[0], in[1]))
Modulation(in, internal) == Dyad(in, internal, "Modulation requires floats", Remainder(in[0], in[1]))
GreaterThan(in, internal) == Dyad(in, internal, "GreaterThan requires floats", Greater(in[0], in[1]))
LessThan(in, internal) == Dyad(in, internal, "LessThan requires floats", Less(in[0], in[1]))

\* Go's == on two interface values: different dynamic types are unequal; equal
\* dynamic types compare by value, and panic when the type is not comparable
\* ([]interface{}, map[string]interface{}); NaN differs from everything
Comparable(a, b) == ~(a.t = b.t /\ (IsArr(a) \/ IsMap(a)))
GoEqual(a, b) == a = b /\ a.s # "nan"

EqualTo(in, internal) ==
  IF ~Comparable(in[0], in[1]) THEN R("panic", None, internal)
  ELSE R("nil", Out0(Bool(GoEqual(in[0], in[1]))), internal)

NotEqualTo(in, internal) ==
  IF ~Comparable(in[0], in[1]) THEN R("panic", None, internal)
  ELSE R("nil", Out0(Bool(~GoEqual(in[0], in[1]))), internal)

\* s.Kernel of the Spec that GetLibrary maps name to
Kernel(name, in, internal) ==
  CASE name = "first" -> First(in, internal)
    [] name = "delay" -> Delay(in, internal)
    [] name = "set" -> Set(in, internal)
    [] name = "log" -> Log(in, internal)
    [] name = "sink" -> Sink(in, internal)
    [] name = "latch" -> Latch(in, internal)
    [] name = "gate" -> Gate(in, internal)
    [] name = "identity" -> Identity(in, internal)
    [] name = "head" -> KHead(in, internal)
    [] name = "tail" -> KTail(in, internal)
    [] name = "append" -> KAppend(in, internal)
    [] name = "+" -> Addition(in, internal)
    [] name = "-" -> Subtraction(in, internal)
    [] name = "*" -> Multiplication(in, internal)
    [] name = "/" -> Division(in, internal)
    [] name = "^" -> Exponentiation(in, internal)
    [] name = "mod" -> Modulation(in, internal)
    [] name = ">" -> GreaterThan(in, internal)
    [] name = "<" -> LessThan(in, internal)
    [] name = "==" -> EqualTo(in, internal)
    [] name = "!=" -> NotEqualTo(in, internal)

(***************************************************************************)
(* Bounds of the model.                                                    *)
(***************************************************************************)
\* mutator calls (RouteValue, RoutePath, Connect, Disconnect, Stop) made in a run
MaxCalls == 3
\* callers blocked at a time in a mutator call
MaxPending == 2
\* concurrent callers of Input
MaxReaders == 1
\* invocations of one kernel in SpecK
MaxKernelRuns == 2
\* the kernels a block is built from in Spec
BlockKinds == {"identity", "sink", "latch", "delay", "head"}
\* the connections (send ends of other blocks' input channels)
Conns == {"c1", "c2"}
\* all connections: those the callers name and one more, wired in SpecOrder
AllConns == Conns \cup {"c3"}
\* what the senders put on the input channels, and what RouteValue pins
SendMsgs == {Bool(TRUE), Map1("k", Num(1))}
PinMsgs == {Str("10ms")}
\* fetch queries: the identity and one key selector
Paths == {".", ".k"}
\* the inputs of a kernel run in SpecK
KernelMsgs ==
  {Num(1), Num(2), Bool(TRUE), Str("k"), Str("10ms"), Null, Arr(<<>>),
   Arr(<<Num(1), Num(2)>>), Map1("k", Num(1)), Err(1, "e")}

VARIABLES
  kind,          \* the kernel name of the Spec the block was made from
  inputs,        \* b.routing.Inputs: id -> [Path, Value]; Value is <<>> (nil) or <<m>>
  conns,         \* b.routing.Outputs[id].Connections
  pending,       \* mutator calls blocked in their send on b.routing.InterruptChan
  calls,         \* mutator calls made so far
  readers,       \* holders of b.routing's shared lock
  writer,        \* b.routing's exclusive lock is held
  inReaders,     \* Input calls between RLock and RUnlock
  inputValues,   \* b.state.inputValues
  outputValues,  \* b.state.outputValues
  manifest,      \* b.state.manifest
  Processed,     \* b.state.Processed
  internal,      \* the kernel's persistent map (its keys)
  pc,            \* where Serve is
  cur,           \* the connection broadcast is sending to
  interrupt,     \* the InterruptFunc Serve holds, <<>> or <<f>>
  kernelLog,     \* history: how each kernel invocation of this cycle returned
  sent,          \* history: sends that succeeded in this cycle, per output id and connection
  cycleAt,       \* history: "new" since NewBlock, "cranked" since a crank, "running" once Serve took a step of the cycle
  early,         \* history: <<id, c, d>>: Disconnect(id, c) left d alone on output id, in broadcast, before a send of output id
  reconnected,   \* history: <<id, c>>: Connect(id, c) put c back after output id was sent to c in this cycle
  lastReturn,    \* history: what the last interrupt function returned
  parkedAt,      \* history: the outputs at which broadcast, finding no connection, received an interrupt in this cycle
  owed,          \* history: <<id, c>>: at the last crank c was connected to output id and had not been sent its message
  handed,        \* history: the routing the interrupt functions handed over so far produce, applied in that order
  kname, kin, kout, kst, kinternal, kruns,  \* SpecK: a kernel, its inputs, what it wrote, how it returned, its internal map, its runs
  gsrc,          \* SpecGraph: the messages src delivers, and how many it has delivered
  gpc,           \* SpecGraph: where the Serve of each block is
  gin,           \* SpecGraph: b.state.inputValues of each block
  gout,          \* SpecGraph: b.state.outputValues of each block
  gman,          \* SpecGraph: b.state.manifest of each block
  gint,          \* SpecGraph: the internal map of each block's kernel
  gdel           \* SpecGraph: history: what each connection has received, cycle after cycle

engineVars ==
  <<kind, inputs, conns, pending, calls, readers, writer, inReaders, inputValues,
    outputValues, manifest, Processed, internal, pc, cur, interrupt, kernelLog,
    sent, cycleAt, early, reconnected, lastReturn, parkedAt, owed, handed>>
kernelVars == <<kname, kin, kout, kst, kinternal, kruns>>
graphVars == <<gsrc, gpc, gin, gout, gman, gint, gdel>>
vars == <<engineVars, kernelVars, graphVars>>

\* no graph: the state of the graph variables outside SpecGraph
GOff ==
  /\ gsrc = <<>> /\ gpc = <<>> /\ gin = <<>> /\ gout = <<>> /\ gman = <<>>
  /\ gint = <<>> /\ gdel = <<>>

(***************************************************************************)
(* SpecK: one kernel of the library on one combination of inputs.          *)
(***************************************************************************)
KIdle ==
  /\ kind = "identity" /\ inputs = <<>> /\ conns = <<>> /\ pending = {} /\ calls = 0
  /\ readers = 0 /\ writer = FALSE /\ inReaders = 0 /\ inputValues = <<>>
  /\ outputValues = <<>> /\ manifest = {} /\ Processed = FALSE /\ internal = {}
  /\ pc = "off" /\ cur = "" /\ interrupt = <<>> /\ kernelLog = <<>> /\ sent = <<>>
  /\ cycleAt = "new" /\ early = {} /\ reconnected = {} /\ lastReturn = TRUE
  /\ parkedAt = {} /\ owed = {} /\ handed = <<>>

KInit ==
  /\ KIdle
  /\ GOff
  /\ kname \in Library
  /\ kin \in [InputIds(kname) -> KernelMsgs]
  /\ kout = None
  /\ kst = "ready"
  /\ kinternal = {}
  /\ kruns = 0

\* the block calls the kernel: in a first cycle, in the next cycle after a crank
\* (the output map is empty again) or once more after the interrupt it returned
KInvoke ==
  /\ kst \in {"ready", "nil", "interrupt"}
  /\ kruns < MaxKernelRuns
  /\ LET r == Kernel(kname, kin, kinternal) IN
       /\ kst' = r.st
       /\ kout' = r.out @@ (IF kst = "interrupt" THEN kout ELSE None)
       /\ kinternal' = r.internal
  /\ kruns' = kruns + 1
  /\ UNCHANGED <<kname, kin, engineVars, graphVars>>

\* Delay: case <-timer.C
KTimer ==
  /\ kst = "wait"
  /\ kout' = DelayTimer(kin)
  /\ kst' = "nil"
  /\ UNCHANGED <<kname, kin, kinternal, kruns, engineVars, graphVars>>

\* Delay: case f := <-i, return f
KInterrupt ==
  /\ kst = "wait"
  /\ kst' = "interrupt"
  /\ UNCHANGED <<kname, kin, kout, kinternal, kruns, engineVars, graphVars>>

KNext == KInvoke \/ KTimer \/ KInterrupt

SpecK == KInit /\ [][KNext]_vars

(***************************************************************************)
(* Spec: one block.  The routing (inputs, conns) is changed only by the    *)
(* interrupt functions; the cycle state only by Serve.                     *)
(***************************************************************************)
KOff == kname = "identity" /\ kin = <<>> /\ kout = None /\ kst = "off" /\ kinternal = {} /\ kruns = 0

NoValue == <<>>
Route(path, value) == [Path |-> path, Value |-> value]
\* BlockRouting: the inputs and the outputs' connections
Routing(ins, cs) == [Inputs |-> ins, Outputs |-> cs]

\* the InterruptFuncs the mutators send: one record shape for the five closures
Func(op, id, c, v, p) == [op |-> op, id |-> id, c |-> c, v |-> v, p |-> p]
RouteValueFunc(id, v) == Func("RouteValue", id, "", v, "")
RoutePathFunc(id, p) == Func("RoutePath", id, "", Null, p)
ConnectFunc(id, c) == Func("Connect", id, c, Null, "")
DisconnectFunc(id, c) == Func("Disconnect", id, c, Null, "")
StopFunc == Func("Stop", 0, "", Null, "")

\* the bodies of the five closures, on a routing's inputs and on its outputs
InputsOf(f, ins) ==
  CASE f.op = "RouteValue" -> [ins EXCEPT ![f.id].Value = <<f.v>>]
    [] f.op = "RoutePath" -> [ins EXCEPT ![f.id] = Route(f.p, NoValue)]
    [] OTHER -> ins
ConnsOf(f, cs) ==
  CASE f.op = "Connect" -> [cs EXCEPT ![f.id] = @ \cup {f.c}]
    [] f.op = "Disconnect" -> [cs EXCEPT ![f.id] = @ \ {f.c}]
    [] OTHER -> cs

\* the calls a caller can make on a block of this kind (ids within range)
Funcs(k) ==
  {RouteValueFunc(id, v) : id \in InputIds(k), v \in PinMsgs}
    \cup {RoutePathFunc(id, p) : id \in InputIds(k), p \in Paths}
    \cup {ConnectFunc(id, c) : id \in OutputIds(k), c \in Conns}
    \cup {DisconnectFunc(id, c) : id \in OutputIds(k), c \in Conns}
    \cup {StopFunc}

\* NewBlock: every input has the identity path, no value; every output no connection
NewBlock(k) ==
  /\ kind = k
  /\ inputs = [id \in InputIds(k) |-> Route(".", NoValue)]
  /\ conns = [id \in OutputIds(k) |-> {}]
  /\ inputValues = <<>>
  /\ outputValues = <<>>
  /\ manifest = {}
  /\ Processed = FALSE
  /\ internal = {}

NoSends == [id \in OutputIds(kind) |-> [c \in AllConns |-> 0]]

Init ==
  /\ KOff
  /\ GOff
  /\ \E k \in BlockKinds : NewBlock(k)
  /\ pending = {} /\ calls = 0
  /\ readers = 0 /\ writer = FALSE /\ inReaders = 0
  /\ pc = "init" /\ cur = "" /\ interrupt = <<>>
  /\ kernelLog = <<>> /\ sent = NoSends /\ cycleAt = "new" /\ early = {} /\ reconnected = {} /\ lastReturn = TRUE
  /\ parkedAt = {} /\ owed = {} /\ handed = Routing(inputs, conns)

routingVars == <<kind, inputs, conns>>
lockVars == <<readers, writer, inReaders>>
callVars == <<pending, calls>>
cycleVars == <<inputValues, outputValues, manifest, Processed, internal>>
histVars == <<kernelLog, sent, cycleAt, early, reconnected, lastReturn, parkedAt, owed, handed>>

(***************************************************************************)
(* fetch.Run(path, m).  The identity yields m; a key selects the entry of  *)
(* a map.  The library is outside the repository: when the path does not   *)
(* resolve it answers with a null value or with an error, and receive      *)
(* handles both answers.                                                   *)
(***************************************************************************)
Fetched(val, err) == [val |-> val, err |-> err]
HasKey(m, k) == IsMap(m) /\ \E i \in DOMAIN m.e : m.e[i].s = k
Lookup(m, k) == m.e[CHOOSE i \in DOMAIN m.e : m.e[i].s = k].e[1]
FetchRun(path, m) ==
  IF path = "." THEN {Fetched(m, FALSE)}
  ELSE IF HasKey(m, "k") THEN {Fetched(Lookup(m, "k"), FALSE)}
  ELSE {Fetched(Null, FALSE), Fetched(Null, TRUE)}

(***************************************************************************)
(* Serve                                                                   *)
(***************************************************************************)
\* go b.Serve(): the supervisor starts the activity
Start ==
  /\ pc = "init"
  /\ pc' = "rlock"
  /\ UNCHANGED <<routingVars, lockVars, callVars, cycleVars, cur, interrupt, histVars, kernelVars, graphVars>>

\* b.routing.RLock()
RLock ==
  /\ pc = "rlock"
  /\ ~writer
  /\ readers' = readers + 1
  /\ pc' = "receive"
  /\ UNCHANGED <<routingVars, writer, inReaders, callVars, cycleVars, cur, interrupt, histVars, kernelVars, graphVars>>

\* a case f := <-b.routing.InterruptChan: the send of one blocked caller completes
TakeInterrupt(f) ==
  /\ f \in pending
  /\ pending' = pending \ {f}
  /\ interrupt' = <<f>>
  /\ pc' = "runlock"
  /\ cur' = ""
  /\ cycleAt' = "running"
  /\ kernelLog' = (IF pc = "kwait" THEN [kernelLog EXCEPT ![Len(kernelLog)] = "interrupt"]
                   ELSE kernelLog)
  /\ handed' = Routing(InputsOf(f, handed.Inputs), ConnsOf(f, handed.Outputs))
  /\ UNCHANGED <<routingVars, lockVars, calls, cycleVars, sent, early, reconnected, lastReturn, owed, kernelVars, graphVars>>

\* a receive that fills an input again when its pinned value is not the one stored
UnfilledOrRepinned ==
  {id \in InputIds(kind) :
     \/ id \notin DOMAIN inputValues
     \/ inputs[id].Value # NoValue /\ inputValues[id] # inputs[id].Value[1]}

\* receive: the inputs still without a value, and the one the loop stands at
Unfilled == {id \in InputIds(kind) : id \notin DOMAIN inputValues}
NextInput == CHOOSE id \in Unfilled : \A j \in Unfilled : id <= j

\* a receive that takes no input for pinned
PinnedIgnored(id) == FALSE

\* if input.Value != nil
Pinned(id) == inputs[id].Value # NoValue

\* input.Value != nil: the pinned value goes into the map
ReceiveValue ==
  /\ pc = "receive"
  /\ Unfilled # {}
  /\ Pinned(NextInput)
  /\ inputValues' = (NextInput :> inputs[NextInput].Value[1]) @@ inputValues
  /\ cycleAt' = "running"
  /\ UNCHANGED <<routingVars, lockVars, callVars, outputValues, manifest, Processed, internal,
                 pc, cur, interrupt, kernelLog, sent, early, reconnected, lastReturn, parkedAt, owed, handed, kernelVars, graphVars>>

\* case m := <-input.C: fetch.Run, and log.Fatal on its error
ReceiveMessage ==
  /\ pc = "receive"
  /\ Unfilled # {}
  /\ ~Pinned(NextInput)
  /\ \E m \in SendMsgs : \E r \in FetchRun(inputs[NextInput].Path, m) :
       IF r.err
         THEN pc' = "fatal" /\ UNCHANGED inputValues
         ELSE pc' = pc /\ inputValues' = (NextInput :> r.val) @@ inputValues
  /\ cycleAt' = "running"
  /\ UNCHANGED <<routingVars, lockVars, callVars, outputValues, manifest, Processed, internal,
                 cur, interrupt, kernelLog, sent, early, reconnected, lastReturn, parkedAt, owed, handed, kernelVars, graphVars>>

\* case f := <-b.routing.InterruptChan of receive
ReceiveInterrupt ==
  /\ pc = "receive"
  /\ Unfilled # {}
  /\ ~Pinned(NextInput)
  /\ \E f \in pending : TakeInterrupt(f)
  /\ UNCHANGED parkedAt

\* a receive that passes a pinned input without storing its value
ReceiveDoneSkippingPinned == \A id \in Unfilled : inputs[id].Value # NoValue

\* the loop over the inputs ends: every input was skipped as filled or was filled
ReceiveDone == Unfilled = {}

\* receive returns nil
ReceiveReturn ==
  /\ pc = "receive"
  /\ ReceiveDone
  /\ pc' = "kernel"
  /\ cycleAt' = "running"
  /\ UNCHANGED <<routingVars, lockVars, callVars, cycleVars, cur, interrupt, kernelLog, sent,
                 early, reconnected, lastReturn, parkedAt, owed, handed, kernelVars, graphVars>>

\* history counters stay within the model: a count past the cap is not told apart
MaxCount == 2
Bump(n) == IF n < MaxCount THEN n + 1 ELSE n

\* a Serve that never sets Processed
ProcessedNever(st) == FALSE

\* b.state.Processed = true follows a kernel that returned nil
ProcessedAfter(st) == st = "nil"

\* if b.state.Processed == false { interrupt = b.kernel(...) }; b.state.Processed = true
KernelStep ==
  /\ pc = "kernel"
  /\ IF Processed
       THEN /\ pc' = "broadcast"
            /\ UNCHANGED <<cycleVars, kernelLog>>
       ELSE LET r == Kernel(kind, inputValues, internal) IN
            /\ kernelLog' = Append(kernelLog, r.st)
            /\ outputValues' = r.out @@ outputValues
            /\ internal' = r.internal
            /\ Processed' = ProcessedAfter(r.st)
            /\ pc' = (CASE r.st = "nil" -> "broadcast"
                        [] r.st = "wait" -> "kwait"
                        [] r.st = "panic" -> "panic")
            /\ UNCHANGED <<inputValues, manifest>>
  /\ cycleAt' = "running"
  /\ UNCHANGED <<routingVars, lockVars, callVars, cur, interrupt, sent, early, reconnected, lastReturn, parkedAt, owed, handed, kernelVars, graphVars>>

\* Delay's case <-timer.C: out[0] = in[0], return nil; then Processed = true
KernelTimer ==
  /\ pc = "kwait"
  /\ outputValues' = DelayTimer(inputValues) @@ outputValues
  /\ Processed' = ProcessedAfter("nil")
  /\ pc' = "broadcast"
  /\ kernelLog' = [kernelLog EXCEPT ![Len(kernelLog)] = "nil"]
  /\ UNCHANGED <<routingVars, lockVars, callVars, inputValues, manifest, internal, cur, interrupt,
                 sent, cycleAt, early, reconnected, lastReturn, parkedAt, owed, handed, kernelVars, graphVars>>

\* Delay's case f := <-i: return f, and Serve breaks with Processed as it is
KernelInterrupt ==
  /\ pc = "kwait"
  /\ \E f \in pending : TakeInterrupt(f)
  /\ UNCHANGED parkedAt

\* the manifest's key for output id and connection c
ManifestPair(id, c) == <<OutName(kind, id), c>>

\* broadcast: the connections of an output not yet in the manifest, the outputs the
\* loop cannot pass (no connection, or one not yet served) and the one it stands at
\* a broadcast that takes every connection as served
UnservedNone(id) == {}

Unserved(id) == {c \in conns[id] : ManifestPair(id, c) \notin manifest}
Waiting == {id \in OutputIds(kind) : conns[id] = {} \/ Unserved(id) # {}}
NextOutput == CHOOSE id \in Waiting : \A j \in Waiting : id <= j

\* len(out.Connections) == 0: the select has the interrupt channel alone
BroadcastPark ==
  /\ pc = "broadcast"
  /\ Waiting # {}
  /\ conns[NextOutput] = {}
  /\ \E f \in pending : TakeInterrupt(f)
  /\ parkedAt' = parkedAt \cup {NextOutput}

\* for c, _ := range out.Connections: the next connection not in the manifest,
\* in the order the map yields
BroadcastNext ==
  /\ pc = "broadcast"
  /\ Waiting # {}
  /\ \E c \in Unserved(NextOutput) :
       /\ cur' = c
       /\ pc' = "send"
  /\ UNCHANGED <<routingVars, lockVars, callVars, cycleVars, interrupt, histVars, kernelVars, graphVars>>

\* a send that leaves the manifest as it is
DeliveredUnrecorded(id, c) == manifest

\* what a successful send records
Delivered(id, c) == manifest \cup {ManifestPair(id, c)}

\* case c <- b.state.outputValues[RouteID(id)]: the receiver on c takes the message
Send ==
  /\ pc = "send"
  /\ manifest' = Delivered(NextOutput, cur)
  /\ sent' = [sent EXCEPT ![NextOutput][cur] = Bump(@)]
  /\ cur' = ""
  /\ pc' = "broadcast"
  /\ UNCHANGED <<routingVars, lockVars, callVars, inputValues, outputValues, Processed, internal,
                 interrupt, kernelLog, cycleAt, early, reconnected, lastReturn, parkedAt, owed, handed, kernelVars, graphVars>>

\* case f := <-b.routing.InterruptChan of the send's select
SendInterrupt ==
  /\ pc = "send"
  /\ \E f \in pending : TakeInterrupt(f)
  /\ UNCHANGED parkedAt

\* broadcast returns nil
BroadcastReturn ==
  /\ pc = "broadcast"
  /\ Waiting = {}
  /\ pc' = "crank"
  /\ UNCHANGED <<routingVars, lockVars, callVars, cycleVars, cur, interrupt, histVars, kernelVars, graphVars>>

\* a crank that leaves the manifest
CrankedKeepsManifest ==
  /\ inputValues' = <<>>
  /\ outputValues' = <<>>
  /\ manifest' = manifest
  /\ Processed' = FALSE

\* crank: the three maps are emptied, Processed = false
Cranked ==
  /\ inputValues' = <<>>
  /\ outputValues' = <<>>
  /\ manifest' = {}
  /\ Processed' = FALSE

\* history: the connected pairs this cycle has not sent to
Unsent == {<<id, c>> \in OutputIds(kind) \X AllConns : c \in conns[id] /\ sent[id][c] = 0}

Crank ==
  /\ pc = "crank"
  /\ Cranked
  /\ pc' = "receive"
  /\ kernelLog' = <<>>
  /\ sent' = NoSends
  /\ cycleAt' = "cranked"
  /\ early' = {}
  /\ reconnected' = {}
  /\ parkedAt' = {}
  /\ owed' = Unsent
  /\ UNCHANGED <<routingVars, lockVars, callVars, internal, cur, interrupt, lastReturn, handed, kernelVars, graphVars>>

\* b.routing.RUnlock()
RUnlock ==
  /\ pc = "runlock"
  /\ readers' = readers - 1
  /\ pc' = "lock"
  /\ UNCHANGED <<routingVars, writer, inReaders, callVars, cycleVars, cur, interrupt, histVars, kernelVars, graphVars>>

\* RLock in the place of Lock: readers are not waited for
LockShared == ~writer

\* sync.RWMutex: Lock returns when no reader and no writer holds the lock
LockFree == readers = 0 /\ ~writer

\* b.routing.Lock()
Lock ==
  /\ pc = "lock"
  /\ LockFree
  /\ writer' = TRUE
  /\ pc' = "call"
  /\ UNCHANGED <<routingVars, readers, inReaders, callVars, cycleVars, cur, interrupt, histVars, kernelVars, graphVars>>

\* a RoutePath that leaves the pinned value in place
InputsAfterKeepingValue(f) ==
  IF f.op = "RoutePath" THEN [inputs EXCEPT ![f.id].Path = f.p] ELSE InputsOf(f, inputs)

\* the closures run on the block's routing, and what they return
InputsAfter(f) == InputsOf(f, inputs)

\* a Serve that drops the closure of Connect and of Disconnect
ConnsAfterLost(f) == conns

ConnsAfter(f) == ConnsOf(f, conns)
Returns(f) == f.op # "Stop"

\* history of the Disconnects and Connects of this cycle
NothingSent(id) == \A c \in AllConns : sent[id][c] = 0
EarlyAfter(f) ==
  LET others == {e \in early : e[1] # f.id} IN
  IF f.op = "Disconnect" /\ Processed /\ f.c \in conns[f.id]
       /\ Cardinality(conns[f.id]) = 2 /\ NothingSent(f.id)
    THEN others \cup {<<f.id, f.c, d>> : d \in conns[f.id] \ {f.c}}
  ELSE IF f.op \in {"Connect", "Disconnect"} THEN others
  ELSE early
ReconnectedAfter(f) ==
  IF f.op = "Connect" /\ f.c \notin conns[f.id] /\ sent[f.id][f.c] > 0
    THEN reconnected \cup {<<f.id, f.c>>}
    ELSE reconnected

\* a Serve that goes on after a function returned false
AfterCallGoesOn(ok) == "unlock"

\* if ok := interrupt(); !ok { return }
AfterCall(ok) == IF ok THEN "unlock" ELSE "done"

Call ==
  /\ pc = "call"
  /\ LET f == interrupt[1] IN
       /\ inputs' = InputsAfter(f)
       /\ conns' = ConnsAfter(f)
       /\ lastReturn' = Returns(f)
       /\ pc' = AfterCall(Returns(f))
       /\ early' = EarlyAfter(f)
       /\ reconnected' = ReconnectedAfter(f)
  /\ interrupt' = <<>>
  /\ UNCHANGED <<kind, lockVars, callVars, cycleVars, cur, kernelLog, sent, cycleAt, parkedAt, owed, handed, kernelVars, graphVars>>

\* b.routing.Unlock()
Unlock ==
  /\ pc = "unlock"
  /\ writer' = FALSE
  /\ pc' = "rlock"
  /\ UNCHANGED <<routingVars, readers, inReaders, callVars, cycleVars, cur, interrupt, histVars, kernelVars, graphVars>>

(***************************************************************************)
(* The callers                                                             *)
(***************************************************************************)
\* RouteValue, RoutePath, Connect, Disconnect, Stop: b.routing.InterruptChan <- f
\* blocks the caller until Serve receives f
CallMutator ==
  /\ calls < MaxCalls
  /\ Cardinality(pending) < MaxPending
  /\ \E f \in Funcs(kind) \ pending : pending' = pending \cup {f}
  /\ calls' = calls + 1
  /\ UNCHANGED <<routingVars, lockVars, cycleVars, pc, cur, interrupt, histVars, kernelVars, graphVars>>

\* an RLock that waits for no writer
RLockAlways == TRUE

\* sync.RWMutex: RLock returns when no writer holds the lock or waits for it
RLockFree == ~writer /\ pc # "lock"

\* Input: b.routing.RLock()
InputRLock ==
  /\ inReaders < MaxReaders
  /\ RLockFree
  /\ readers' = readers + 1
  /\ inReaders' = inReaders + 1
  /\ UNCHANGED <<routingVars, writer, callVars, cycleVars, pc, cur, interrupt, histVars, kernelVars, graphVars>>

\* Input: return b.routing.Inputs[id], with the deferred b.routing.RUnlock()
InputRUnlock ==
  /\ inReaders > 0
  /\ readers' = readers - 1
  /\ inReaders' = inReaders - 1
  /\ UNCHANGED <<routingVars, writer, callVars, cycleVars, pc, cur, interrupt, histVars, kernelVars, graphVars>>

\* the steps of Serve
CycleStep ==
  \/ RLock
  \/ ReceiveValue \/ ReceiveMessage \/ ReceiveInterrupt \/ ReceiveReturn
  \/ KernelStep \/ KernelTimer \/ KernelInterrupt
  \/ BroadcastPark \/ BroadcastNext \/ Send \/ SendInterrupt \/ BroadcastReturn
  \/ Crank
  \/ RUnlock \/ Lock \/ Call \/ Unlock

ServeStep == Start \/ CycleStep

\* a block, the callers of its mutators, the senders and the receivers
Next == ServeStep \/ CallMutator

Spec == Init /\ [][Next]_vars

\* the same with callers of Input
InputKinds == {"identity", "sink", "delay"}
InitInput == Init /\ kind \in InputKinds
NextWithInput == ServeStep \/ CallMutator \/ InputRLock \/ InputRUnlock

SpecInput == InitInput /\ [][NextWithInput]_vars

\* a wired block: Serve is in its first receive, the Connect calls that wired the
\* outputs have been processed there, and the callers have two calls left
WiredKinds == {"latch", "head", "delay"}
InitWired ==
  /\ KOff
  /\ GOff
  /\ \E k \in WiredKinds :
       /\ kind = k
       /\ inputs = [id \in InputIds(k) |-> Route(".", NoValue)]
       /\ conns \in [OutputIds(k) -> SUBSET Conns]
  /\ inputValues = <<>> /\ outputValues = <<>> /\ manifest = {} /\ Processed = FALSE
  /\ internal = {}
  /\ pending = {} /\ calls = MaxCalls - 2
  /\ readers = 0 /\ writer = FALSE /\ inReaders = 0
  /\ pc = "rlock" /\ cur = "" /\ interrupt = <<>>
  /\ kernelLog = <<>> /\ sent = NoSends
  /\ cycleAt = "running" /\ early = {} /\ reconnected = {}
  /\ lastReturn = TRUE
  /\ parkedAt = {} /\ owed = {} /\ handed = Routing(inputs, conns)

SpecWired == InitWired /\ [][CycleStep \/ CallMutator]_vars

\* Serve has returned, or the process has ended under it
Terminated == pc \in {"done", "fatal", "panic"}

\* fair scheduling: Serve runs while it can take a step, and a select whose
\* interrupt case is ready again and again takes it in the end
InterruptStep == ReceiveInterrupt \/ KernelInterrupt \/ BroadcastPark \/ SendInterrupt
FairKinds == {"sink", "delay"}
InitFair == Init /\ kind \in FairKinds
SpecFair == InitFair /\ [][Next]_vars /\ WF_vars(ServeStep) /\ SF_vars(InterruptStep)

(***************************************************************************)
(* SpecBlocked: a wired block one of whose consumers never receives.       *)
(***************************************************************************)
\* the connection whose consumer never receives
DeadConn == "c2"
BlockedKinds == {"head"}
InitBlocked == InitWired /\ kind \in BlockedKinds

\* case c <- ...: ready only when the consumer receives
SendLive == cur # DeadConn /\ Send

BlockedStep ==
  \/ RLock
  \/ ReceiveValue \/ ReceiveMessage \/ ReceiveInterrupt \/ ReceiveReturn
  \/ KernelStep
  \/ BroadcastPark \/ BroadcastNext \/ SendLive \/ SendInterrupt \/ BroadcastReturn
  \/ Crank
  \/ RUnlock \/ Lock \/ Call \/ Unlock

SpecBlocked ==
  InitBlocked /\ [][BlockedStep \/ CallMutator]_vars
    /\ WF_vars(BlockedStep) /\ SF_vars(InterruptStep)

(***************************************************************************)
(* SpecOrder: a block with two outputs wired to up to three connections,   *)
(* and one call left to the callers.                                       *)
(***************************************************************************)
OrderKinds == {"latch", "head"}
InitOrder ==
  /\ KOff
  /\ GOff
  /\ \E k \in OrderKinds :
       /\ kind = k
       /\ inputs = [id \in InputIds(k) |-> Route(".", NoValue)]
       /\ conns \in [OutputIds(k) -> SUBSET AllConns]
  /\ inputValues = <<>> /\ outputValues = <<>> /\ manifest = {} /\ Processed = FALSE
  /\ internal = {}
  /\ pending = {} /\ calls = MaxCalls - 1
  /\ readers = 0 /\ writer = FALSE /\ inReaders = 0
  /\ pc = "rlock" /\ cur = "" /\ interrupt = <<>>
  /\ kernelLog = <<>> /\ sent = NoSends
  /\ cycleAt = "running" /\ early = {} /\ reconnected = {}
  /\ lastReturn = TRUE
  /\ parkedAt = {} /\ owed = {} /\ handed = Routing(inputs, conns)

\* the steps of Serve on a kernel that does not wait
OrderStep ==
  \/ RLock
  \/ ReceiveValue \/ ReceiveMessage \/ ReceiveInterrupt \/ ReceiveReturn
  \/ KernelStep
  \/ BroadcastPark \/ BroadcastNext \/ Send \/ SendInterrupt \/ BroadcastReturn
  \/ Crank
  \/ RUnlock \/ Lock \/ Call \/ Unlock

SpecOrder == InitOrder /\ [][OrderStep \/ CallMutator]_vars

(***************************************************************************)
(* SpecGraph: first -> latch(ctrl), src -> latch(in).  Two blocks run the   *)
(* cycle of Serve (receive, kernel, broadcast, crank) with no interrupt;   *)
(* a trigger feeds first, and the latch's outputs go to two receivers.     *)
(***************************************************************************)
GraphBlocks == {"first", "latch"}
\* the longest run of messages src delivers
MaxSrc == 3
SrcMsgs == {Num(42), Num(43)}
TrigMsgs == {Bool(TRUE), Num(1)}
GraphSources == UNION {[1 .. n -> SrcMsgs] : n \in 2 .. MaxSrc}

\* Connect: the connections of each output; "ctrl" is the channel of latch's input 1
GraphConns(b, id) ==
  IF b = "first" THEN {"ctrl"} ELSE IF id = 0 THEN {"o0"} ELSE {"o1"}
GraphChans == {"ctrl", "o0", "o1"}

InitGraph ==
  /\ KIdle
  /\ KOff
  /\ gsrc \in {[msgs |-> q, n |-> 0] : q \in GraphSources}
  /\ gpc = [b \in GraphBlocks |-> "receive"]
  /\ gin = [b \in GraphBlocks |-> <<>>]
  /\ gout = [b \in GraphBlocks |-> <<>>]
  /\ gman = [b \in GraphBlocks |-> {}]
  /\ gint = [b \in GraphBlocks |-> {}]
  /\ gdel = [c \in GraphChans |-> <<>>]

GUnfilled(b) == {id \in InputIds(b) : id \notin DOMAIN gin[b]}
GNextInput(b) == CHOOSE id \in GUnfilled(b) : \A j \in GUnfilled(b) : id <= j
\* receive stands in its select on input id of block b
GReceiving(b, id) == gpc[b] = "receive" /\ GUnfilled(b) # {} /\ GNextInput(b) = id

\* case m := <-input.C with the identity path of NewBlock
GReceived(b, id, m) ==
  \E r \in FetchRun(".", m) : gin' = [gin EXCEPT ![b] = (id :> r.val) @@ @]

\* the trigger sends a message to first's input
GTrigger ==
  /\ GReceiving("first", 0)
  /\ \E m \in TrigMsgs : GReceived("first", 0, m)
  /\ UNCHANGED <<gsrc, gpc, gout, gman, gint, gdel, engineVars, kernelVars>>

\* src sends its next message to latch's input in
GSource ==
  /\ GReceiving("latch", 0)
  /\ gsrc.n < Len(gsrc.msgs)
  /\ GReceived("latch", 0, gsrc.msgs[gsrc.n + 1])
  /\ gsrc' = [gsrc EXCEPT !.n = @ + 1]
  /\ UNCHANGED <<gpc, gout, gman, gint, gdel, engineVars, kernelVars>>

\* receive returns nil, the kernel runs, Processed = true
GKernel(b) ==
  /\ gpc[b] = "receive"
  /\ GUnfilled(b) = {}
  /\ LET r == Kernel(b, gin[b], gint[b]) IN
       /\ gout' = [gout EXCEPT ![b] = r.out @@ @]
       /\ gint' = [gint EXCEPT ![b] = r.internal]
  /\ gpc' = [gpc EXCEPT ![b] = "broadcast"]
  /\ UNCHANGED <<gsrc, gin, gman, gdel, engineVars, kernelVars>>

\* broadcast: the outputs with a connection not in the manifest, and the first of them
GUnserved(b, id) == {c \in GraphConns(b, id) : <<OutName(b, id), c>> \notin gman[b]}
GWaiting(b) == {id \in OutputIds(b) : GUnserved(b, id) # {}}
GNextOutput(b) == CHOOSE id \in GWaiting(b) : \A j \in GWaiting(b) : id <= j
GSending(b, c) ==
  /\ gpc[b] = "broadcast"
  /\ GWaiting(b) # {}
  /\ c \in GUnserved(b, GNextOutput(b))
GSent(b, c) ==
  /\ gman' = [gman EXCEPT ![b] = @ \cup {<<OutName(b, GNextOutput(b)), c>>}]
  /\ gdel' = [gdel EXCEPT ![c] = Append(@, gout[b][GNextOutput(b)])]

\* first's send on the channel of latch's input ctrl meets latch's receive
GSendCtrl ==
  /\ GSending("first", "ctrl")
  /\ GReceiving("latch", 1)
  /\ GSent("first", "ctrl")
  /\ GReceived("latch", 1, gout["first"][0])
  /\ UNCHANGED <<gsrc, gpc, gout, gint, engineVars, kernelVars>>

\* a receiver takes the message latch sends on an output
GSendOut ==
  /\ \E c \in {"o0", "o1"} : GSending("latch", c) /\ GSent("latch", c)
  /\ UNCHANGED <<gsrc, gpc, gin, gout, gint, engineVars, kernelVars>>

\* broadcast returns nil and the block cranks
GCrank(b) ==
  /\ gpc[b] = "broadcast"
  /\ GWaiting(b) = {}
  /\ gin' = [gin EXCEPT ![b] = <<>>]
  /\ gout' = [gout EXCEPT ![b] = <<>>]
  /\ gman' = [gman EXCEPT ![b] = {}]
  /\ gpc' = [gpc EXCEPT ![b] = "receive"]
  /\ UNCHANGED <<gsrc, gint, gdel, engineVars, kernelVars>>

GKernels == \E b \in GraphBlocks : GKernel(b)
GCranks == \E b \in GraphBlocks : GCrank(b)
NextGraph == GTrigger \/ GSource \/ GKernels \/ GSendCtrl \/ GSendOut \/ GCranks

SpecGraph == InitGraph /\ [][NextGraph]_vars

(***************************************************************************)
(* Claims                                                                  *)
(***************************************************************************)
AllButLastInterrupted == \A i \in 1 .. Len(kernelLog) - 1 : kernelLog[i] = "interrupt"
LastReturnedNil == kernelLog # <<>> /\ kernelLog[Len(kernelLog)] = "nil"

C2_CrankAfterAllDelivered ==
  pc = "crank" => \A id \in OutputIds(kind) : \A c \in conns[id] : sent[id][c] = 1

\* C3: within one cycle no (output, connection) pair is sent to more than once.
C3_NoPairSentTwice == \A id \in OutputIds(kind) : \A c \in AllConns : sent[id][c] <= 1

\* C3 witness: broadcast has resumed in a cycle in which a connection was served,
\* disconnected and connected again, and passes it as already served.
C3_Witness ==
  /\ pc = "broadcast" /\ reconnected # {}
  /\ \A r \in reconnected : r[2] \in conns[r[1]] /\ r[2] \notin Unserved(r[1]) /\ sent[r[1]][r[2]] = 1

\* C4: once Stop is called on a running block, Serve terminates.
C4_StopTerminates == (pc # "init" /\ StopFunc \in pending) ~> Terminated

\* C5: an interrupt function runs only under the exclusive lock with no shared
\* lock held by Serve or by a caller of Input, and Serve is in its cycle
\* (receive, kernel, broadcast, crank) only under its shared lock.
C5_MutatorExclusive ==
  /\ pc = "call" => writer /\ readers = 0 /\ inReaders = 0
  /\ pc \in {"receive", "kernel", "kwait", "broadcast", "send", "crank"} => ~writer /\ readers >= 1

\* C5 witness: Serve holds the exclusive lock and is about to run RouteValue's
\* function, after another interrupt function has run and returned.
C5_Witness ==
  /\ pc = "call" /\ writer /\ interrupt # <<>> /\ interrupt[1].op = "RouteValue"
  /\ \E id \in OutputIds(kind) : conns[id] # {}

\* C6: at the start of every cycle (after NewBlock, after every crank) the three
\* maps are empty and Processed is false.
C6_CleanSlate ==
  cycleAt \in {"new", "cranked"} =>
    inputValues = <<>> /\ outputValues = <<>> /\ manifest = {} /\ ~Processed

\* C6 witness: a crank has just ended a cycle in which a message was delivered.
C6_Witness == cycleAt = "cranked" /\ \E id \in OutputIds(kind) : conns[id] # {}

\* C7: the kernel is invoked, and receive returns nil, only when every input
\* has a value in the input map.
C7_KernelHasAllInputs ==
  (pc \in {"kernel", "kwait"} \/ kernelLog # <<>>) => Unfilled = {}

\* C7 witness: receive has returned nil after RouteValue pinned input 0 while
\* receive was waiting on input 1, input 0 already filled from its channel.
C7_Witness ==
  /\ pc = "kernel" /\ ~Processed /\ NumInputs(kind) = 2
  /\ inputs[0].Value # NoValue /\ inputValues[0] # inputs[0].Value[1]

\* C8: Serve ends only by an interrupt function returning false; no message on
\* an input ends the block or the process.
C8_EndsOnlyOnFalse == pc \in {"done", "fatal"} => pc = "done" /\ ~lastReturn

\* C9: when Disconnect(id, c) leaves d alone on output id, in broadcast and
\* before any send of output id, broadcast completes with one message sent to d
\* and none to c.
C9_DisconnectBeforeSend ==
  pc = "crank" => \A e \in early : sent[e[1]][e[3]] = 1 /\ sent[e[1]][e[2]] = 0

\* C10: a kernel never panics, and when an input fails its variant check the
\* kernel returns nil with an error on output 0.
FailsVariantCheck(name, in) ==
  CASE name = "delay" -> ~IsStr(in[1])
    [] name = "set" -> ~IsStr(in[0])
    [] name = "latch" -> ~IsBool(in[1])
    [] name \in {"head", "tail"} -> ~IsArr(in[0]) \/ in[0].e = <<>>
    [] name = "append" -> ~IsArr(in[1])
    [] name \in {"+", "-", "*", "/", "^", "mod", ">", "<"} -> ~IsNum(in[0]) \/ ~IsNum(in[1])
    [] OTHER -> FALSE
C10_KernelsNeverCrash ==
  /\ kst # "panic"
  /\ (kst = "nil" /\ FailsVariantCheck(kname, kin)) => (0 \in DOMAIN kout /\ IsErr(kout[0]))

C12_RoutePathFrame ==
  [][(pc = "call" /\ pc' # "call" /\ interrupt[1].op = "RoutePath") =>
       /\ inputs'[interrupt[1].id] = Route(interrupt[1].p, NoValue)
       /\ \A id \in InputIds(kind) \ {interrupt[1].id} : inputs'[id] = inputs[id]
       /\ conns' = conns
       /\ UNCHANGED <<inputValues, outputValues, manifest, Processed>>
       /\ pc' = "unlock"]_vars

\* C12 witness: a RoutePath was processed in the middle of a cycle (the kernel has
\* run), the input has the new path and no pinned value, Serve is about to unlock
C12_Witness ==
  /\ pc = "unlock" /\ Processed
  /\ \E id \in InputIds(kind) : inputs[id] = Route(".k", NoValue)

\* C13: a block never cranks while the consumer that never receives is connected
\* to one of its outputs, and records no delivery to it; while it waits in the
\* send to that consumer, the interrupt functions submitted are all received (no
\* caller stays blocked), and a submitted Stop ends Serve, unless a Disconnect
\* has removed the consumer.
DeadUnwired == \A id \in OutputIds(kind) : DeadConn \notin conns[id]
Blocked == pc = "send" /\ cur = DeadConn
C13_BlockedHonorsInterrupts ==
  /\ [](pc = "crank" => DeadUnwired)
  /\ [](\A m \in manifest : m[2] # DeadConn)
  /\ (Blocked /\ pending # {}) ~> (pending = {} \/ pc = "done" \/ DeadUnwired)
  /\ (Blocked /\ StopFunc \in pending) ~> (pc = "done" \/ DeadUnwired)

\* C13 witness: Serve returned on a Stop received in the send to the consumer
\* that never receives (the kernel has run, the output's one connection is unserved)
C13_Witness ==
  /\ pc = "done" /\ Processed
  /\ Waiting # {} /\ conns[NextOutput] = {DeadConn}

\* C14: a block that parked at an output with no connection cranks only after
\* every connection that output has by then was sent the output's message of
\* this cycle.
C14_ParkedThenDelivered ==
  pc = "crank" => \A id \in parkedAt : \A c \in conns[id] : sent[id][c] = 1

\* C15: when receive stands at an input that has a pinned Value and no value yet
\* in this cycle, the value it stores is the pinned one (the channel's message is
\* not taken), a stored value stays as it is until the crank, and a pinned Value
\* stays on its input until a RoutePath for that input clears it.
C15_PinnedNotRead ==
  [][/\ (pc = "receive" /\ Unfilled # {} /\ inputs[NextInput].Value # NoValue
           /\ inputValues' # inputValues) =>
          inputValues' = (NextInput :> inputs[NextInput].Value[1]) @@ inputValues
     /\ \A id \in DOMAIN inputValues \cap DOMAIN inputValues' :
          inputValues'[id] = inputValues[id]
     /\ \A id \in InputIds(kind) :
          (inputs[id].Value # NoValue /\ inputs'[id].Value = NoValue) =>
            pc = "call" /\ interrupt[1] \in {RoutePathFunc(id, p) : p \in Paths}]_vars

\* C15 witness: receive has returned with an input holding its pinned value
C15_Witness ==
  /\ pc = "kernel" /\ ~Processed
  /\ \E id \in InputIds(kind) :
       inputs[id].Value # NoValue /\ inputValues[id] = inputs[id].Value[1]

\* C16: within a cycle an input gets its value only when every input of a lower
\* index has one, and a send on output j happens only when every connection of
\* every output i < j has been sent output i's message.
C16_IndexOrder ==
  [][/\ \A id \in DOMAIN inputValues' \ DOMAIN inputValues :
          \A i \in InputIds(kind) : i < id => i \in DOMAIN inputValues
     /\ pc = "send" =>
          \A id \in OutputIds(kind) : sent'[id] # sent[id] =>
            \A i \in OutputIds(kind) : i < id => \A c \in conns[i] : sent[i][c] >= 1]_vars

\* C17: when receive takes a value for an input, the cycle before is over: the
\* output map and the manifest are empty, Processed is false, and every
\* connection the outputs had at the last crank had been sent that cycle's
\* message.
C17_CyclesSequential ==
  [][(pc = "receive" /\ DOMAIN inputValues' # DOMAIN inputValues) =>
       /\ outputValues = <<>> /\ manifest = {} /\ ~Processed
       /\ owed = {}]_vars

\* C18: Serve holds at most one interrupt function, from the select that received
\* it until it has called it under the exclusive lock; the block's routing is
\* what the functions handed over so far give when applied one after the other
\* in the order of the hand-over (the one Serve holds still to be applied).
C18_Serialized ==
  /\ Len(interrupt) <= 1
  /\ interrupt # <<>> <=> pc \in {"runlock", "lock", "call"}
  /\ handed = (IF interrupt = <<>> THEN Routing(inputs, conns)
               ELSE Routing(InputsOf(interrupt[1], inputs), ConnsOf(interrupt[1], conns)))

\* C18 witness: of three functions submitted together one has been called and has
\* changed the routing, while two callers are still blocked
C18_Witness ==
  /\ pc = "unlock" /\ Cardinality(pending) >= 2
  /\ handed = Routing(inputs, conns)
  /\ \/ \E id \in InputIds(kind) : inputs[id] # Route(".", NoValue)
     \/ \E id \in OutputIds(kind) : conns[id] # {}

\* C19: once Serve has returned on an interrupt function that returned false, the
\* exclusive lock is held for good: no caller of Input is past its RLock and
\* none can get past it.
C19_LockedAfterStop ==
  pc = "done" => writer /\ readers = 0 /\ inReaders = 0 /\ ~RLockFree

\* C19 witness: Serve has returned on a Stop, after callers of Input had come
\* and gone while it ran (it was in broadcast: the kernel has run)
C19_Witness == pc = "done" /\ ~lastReturn /\ writer /\ Processed

\* C20: while Serve has not started, and once it has returned on an interrupt
\* function that returned false, no blocked call returns (the callers blocked
\* stay blocked) and the routing does not change.
C20_NoServeNoReceive ==
  [][(pc \in {"init", "done"} \/ ~lastReturn) =>
       /\ pending \subseteq pending'
       /\ inputs' = inputs /\ conns' = conns
       /\ pc = "done" => pc' = "done"]_vars

\* C20 witness: Serve has returned on a Stop; a second Stop and another call
\* are blocked
C20_Witness ==
  /\ pc = "done" /\ ~lastReturn
  /\ StopFunc \in pending /\ Cardinality(pending) >= 2

\* C21: the step that processes a RouteValue or a RoutePath leaves the input map
\* as it is; a value stored for an input stays until the crank; and an input
\* filled later in the cycle gets the pinned value its route has then, or a
\* message passed through the path its route has then.
C21_RecordedValueKept ==
  [][/\ (pc = "call" /\ pc' # "call" /\ interrupt[1].op \in {"RouteValue", "RoutePath"}) =>
          inputValues' = inputValues
     /\ \A id \in DOMAIN inputValues \cap DOMAIN inputValues' :
          inputValues'[id] = inputValues[id]
     /\ \A id \in DOMAIN inputValues' \ DOMAIN inputValues :
          inputValues'[id] \in
            (IF inputs[id].Value # NoValue THEN {inputs[id].Value[1]}
             ELSE {r.val : r \in UNION {FetchRun(inputs[id].Path, m) : m \in SendMsgs}})]_vars

\* C21 witness: a RouteValue was processed after the input had taken a message
\* in this cycle: the input map still holds the message, not the pinned value
C21_Witness ==
  /\ pc = "unlock"
  /\ \E id \in DOMAIN inputValues :
       inputs[id].Value # NoValue /\ inputValues[id] # inputs[id].Value[1]

====
